---- MODULE Spec2Model ----
(***************************************************************************)
(* The Plugin System's Python example script (examples/python_example.py)  *)
(* running inside the host-embedded scripting bridge.                      *)
(*                                                                         *)
(* The script is modelled statement by statement: pc is the line number of *)
(* the next statement, globals is the interpreter's global namespace.      *)
(* The bridge the script runs in (Bridge Session, Native Type / Function   *)
(* Registries, Script Function Invoker, the Vector3 arithmetic) is native  *)
(* code that the script only uses; it is modelled from the design          *)
(* document, sections 3 to 5.                                              *)
(***************************************************************************)
EXTENDS Integers, Sequences, FiniteSets, TLC

VARIABLES
    session,     \* Bridge Session state: "Uninitialized", "Ready", "TornDown"
    types,       \* names registered in the Native Type Registry
    mathModule,  \* TRUE when a module named math can be imported
    mathFns,     \* functions the math module offers
    arena,       \* native instances owned by the session: handle -> value
    nextHandle,  \* next handle to hand out
    globals,     \* the interpreter's global namespace: name -> value
    status,      \* the script: "idle", "running", "done", "raised"
    pc,          \* line of the next statement of the script
    exc,         \* the exception in flight or caught ("" when none)
    loop_i,      \* the self-test loop's index (line 77)
    printed,     \* the values line 78 printed
    attempted,   \* native calls the try block (lines 40-58) started
    returned,    \* native calls of the try block that returned normally
    reported,    \* number of times the handler at line 60 ran
    calls,       \* calls with a DomainError precondition made by the script
    lastResult,  \* outcome of the last bridge operation the host made
    fn, fa, fb, fi, fpc, fret, fiters,  \* one activation of calculate_fibonacci
    va, vb, vscript, vdot, vcross, vrev, vtriple, vpc  \* the Vector3 laws' operands and results

scriptVars == <<globals, status, pc, exc, loop_i, printed, attempted, returned,
                reported, calls>>
bridgeVars == <<session, types, mathModule, mathFns, arena, nextHandle, lastResult>>
fibVars == <<fn, fa, fb, fi, fpc, fret, fiters>>
vecVars == <<va, vb, vscript, vdot, vcross, vrev, vtriple, vpc>>
vars == <<bridgeVars, scriptVars, fibVars, vecVars>>

----
\* Bounds of the model.

\* calculate_fibonacci is called with arguments -NegArgs .. MaxArg
MaxArg == 12
NegArgs == 2
\* components of the vectors the Vector3 laws are checked on: -MaxComp .. MaxComp
MaxComp == 2

FibArgs == (0 - NegArgs) .. MaxArg
Comps == (0 - MaxComp) .. MaxComp

----
\* Constants of the script.

\* variant: the third component mistyped
V1ArgsMistyped == <<1, 2, 4>>
\* line 14: v1 = Vector3(1, 2, 3)
V1Args == <<1, 2, 3>>
\* line 15: v2 = Vector3(4, 5, 6)
V2Args == <<4, 5, 6>>
\* line 23: v1 * 2.5, the scalar as numerator over denominator
ScalarK == [num |-> 5, den |-> 2]
\* line 43: angle_deg = 45.0
AngleDeg == 45
\* variant: a zero axis
AxisArgsZero == <<0, 0, 0>>
\* line 45: axis = Vector3(0, 1, 0)
AxisArgs == <<0, 1, 0>>
\* line 52: t = 0.5
LerpT == [num |-> 1, den |-> 2]
\* line 57: math.random(1, 10)
RandomArgs == <<1, 10>>
\* line 77: for i in range(10)
RangeEnd == 10

----
\* calculate_fibonacci, lines 63-73.

\* variant: the pair assigned one name after the other (a = b; b = a + b)
LoopBodySequential(a, b) == <<b, b + b>>
\* line 72: a, b = b, a + b
LoopBody(a, b) == <<b, a + b>>

\* lines 71-73: for _ in range(2, n + 1): ...; return b
RECURSIVE FibLoop(_, _, _, _)
FibLoop(a, b, i, n) ==
    IF i > n THEN b
    ELSE LET p == LoopBody(a, b) IN FibLoop(p[1], p[2], i + 1, n)

\* variant: the first test written n < 0
FibBaseStrict(n) == IF n < 0 THEN 0 ELSE 1
\* lines 65-68: the two early returns
FibBase(n) == IF n <= 0 THEN 0 ELSE 1

\* lines 63-73
calculate_fibonacci(n) ==
    IF n <= 0 \/ n = 1 THEN FibBase(n) ELSE FibLoop(0, 1, 2, n)

----
\* Vector3 reference semantics (design document, section 4.2) and the module
\* functions (section 4.3). Components are integers where the result is one;
\* a scaled result keeps its denominator, an irrational one stays symbolic.

Add(a, b) == <<a[1] + b[1], a[2] + b[2], a[3] + b[3]>>
Subtract(a, b) == <<a[1] - b[1], a[2] - b[2], a[3] - b[3]>>
ScalarMultiply(v, k) ==
    [num |-> <<v[1] * k.num, v[2] * k.num, v[3] * k.num>>, den |-> k.den]
Dot(a, b) == a[1] * b[1] + a[2] * b[2] + a[3] * b[3]
Cross(a, b) ==
    <<a[2] * b[3] - a[3] * b[2], a[3] * b[1] - a[1] * b[3], a[1] * b[2] - a[2] * b[1]>>
Negate(a) == <<0 - a[1], 0 - a[2], 0 - a[3]>>
\* length(v) = sqrt(dot(v,v)): kept as the radicand
Length(v) == [sqrt |-> Dot(v, v)]
\* normalize(v): each component over the length
Normalize(v) == [num |-> v, den |-> Length(v)]
\* rotated(v, axis, angle): Rodrigues' formula about the normalized axis, symbolic
Rotated(v, axis, angle) == [rotate |-> v, about |-> Normalize(axis), by |-> angle]
\* radians(degrees) = degrees * pi / 180
Radians(deg) == [piTimes |-> deg, den |-> 180]
\* lerp(a, b, t) = a + (b - a) * t, componentwise
Lerp(a, b, t) ==
    [num |-> Add(<<a[1] * t.den, a[2] * t.den, a[3] * t.den>>,
                 ScalarMultiply(Subtract(b, a), t).num),
     den |-> t.den]

\* The DomainError preconditions of sections 4.2 and 4.3.
NormalizeDomainError(v) == Dot(v, v) = 0
RotatedDomainError(axis) == Dot(axis, axis) = 0
RandomDomainError(low, high) == low > high
\* random(low, high) draws from [low, high); the model draws the integers in it
RandomRange(low, high) == low .. (high - 1)

----
\* The error taxonomy (section 7) and the interpreter's own exceptions.

BridgeErrors ==
    {"TypeMismatchError", "ArityMismatchError", "UnsupportedOperatorError",
     "UnknownMethodError", "StaleHandleError", "DomainError"}
\* what a native call made by the script can end with, its DomainError aside
CallFailures == BridgeErrors \ {"DomainError"}
InterpreterErrors == {"NameError", "AttributeError", "ImportError"}
\* every one of these derives from the interpreter's Exception class
ExceptionSubclasses == BridgeErrors \cup InterpreterErrors

TypeNames == {"Vector3"}
MathFnNames == {"radians", "lerp", "random"}
ScriptFnNames == {"calculate_fibonacci", "undefined_function"}

----
\* The interpreter's global namespace.

Bound(name) == name \in DOMAIN globals
Bind(g, name, val) ==
    [n \in (DOMAIN g) \cup {name} |-> IF n = name THEN val ELSE g[n]]
Unbind(g, name) == [n \in (DOMAIN g) \ {name} |-> g[n]]
\* the native instance behind the handle a global holds
Deref(name) == arena[globals[name].handle]

\* outcome of a bridge operation as the host sees it
Result(op, arg, outcome, value) ==
    [op |-> op, arg |-> arg, outcome |-> outcome, value |-> value]

----
\* Bridge Session, registries and invoker (design document, sections 4.2-4.5),
\* driven by the host application (section 6).

\* variant: the script is started whatever has been registered
RegistrationsSkipped == TRUE
\* section 2: the registries populate the global namespace before any script runs
RegistrationsComplete == TypeNames \subseteq types

\* variant: initialize() brings any session to Ready
InitializeAgain == "Ready"
\* section 4.5: teardown is final, a torn-down session is not initialized again
InitializeTarget == IF session = "Uninitialized" THEN "Ready" ELSE session

Initialize ==
    /\ session # "Ready"
    /\ session' = InitializeTarget
    /\ lastResult' = Result("initialize", "",
                            IF session = "Uninitialized" THEN "ok" ELSE "SessionClosedError", 0)
    /\ UNCHANGED <<types, mathModule, mathFns, arena, nextHandle>>
    /\ UNCHANGED <<scriptVars, fibVars, vecVars>>

\* the host is not inside the interpreter: script execution is synchronous
HostTurn == status # "running"

RegisterType(name) ==
    /\ session # "Uninitialized"
    /\ HostTurn
    /\ IF session = "TornDown"
       THEN /\ lastResult' = Result("registerType", name, "SessionClosedError", 0)
            /\ UNCHANGED <<types, globals>>
       ELSE IF name \in types
       THEN /\ lastResult' = Result("registerType", name, "DuplicateTypeError", 0)
            /\ UNCHANGED <<types, globals>>
       ELSE /\ types' = types \cup {name}
            /\ globals' = Bind(globals, name, "type")
            /\ lastResult' = Result("registerType", name, "ok", 0)
    /\ UNCHANGED <<session, mathModule, mathFns, arena, nextHandle>>
    /\ UNCHANGED <<status, pc, exc, loop_i, printed, attempted, returned, reported, calls>>
    /\ UNCHANGED <<fibVars, vecVars>>

\* a module named math becomes importable (the host's module, or the runtime's own)
RegisterModule ==
    /\ session = "Ready"
    /\ HostTurn
    /\ ~mathModule
    /\ mathModule' = TRUE
    /\ lastResult' = Result("registerModule", "math", "ok", 0)
    /\ UNCHANGED <<session, types, mathFns, arena, nextHandle>>
    /\ UNCHANGED <<scriptVars, fibVars, vecVars>>

RegisterFunction(name) ==
    /\ session # "Uninitialized"
    /\ HostTurn
    /\ session = "Ready" => mathModule
    /\ IF session = "TornDown"
       THEN /\ lastResult' = Result("registerFunction", name, "SessionClosedError", 0)
            /\ UNCHANGED mathFns
       ELSE IF name \in mathFns
       THEN /\ lastResult' = Result("registerFunction", name, "DuplicateFunctionError", 0)
            /\ UNCHANGED mathFns
       ELSE /\ mathFns' = mathFns \cup {name}
            /\ lastResult' = Result("registerFunction", name, "ok", 0)
    /\ UNCHANGED <<session, types, mathModule, arena, nextHandle>>
    /\ UNCHANGED <<scriptVars, fibVars, vecVars>>

\* the host triggers the script's execution
ExecuteScript ==
    /\ session # "Uninitialized"
    /\ HostTurn
    /\ IF session = "TornDown"
       THEN /\ lastResult' = Result("executeScript", "", "SessionClosedError", 0)
            /\ UNCHANGED <<status, pc>>
       ELSE /\ status = "idle"
            /\ RegistrationsComplete
            /\ status' = "running"
            /\ pc' = 3
            /\ lastResult' = Result("executeScript", "", "ok", 0)
    /\ UNCHANGED <<session, types, mathModule, mathFns, arena, nextHandle>>
    /\ UNCHANGED <<globals, exc, loop_i, printed, attempted, returned, reported, calls>>
    /\ UNCHANGED <<fibVars, vecVars>>

\* section 4.4: the binding is looked up when the call is made
Resolves(name) == Bound(name)

\* callScriptFunction(name, [n]), from the host or from a native callable that the
\* running script has called
CallScriptFunction(name, n) ==
    /\ session # "Uninitialized"
    /\ lastResult' =
         IF session = "TornDown"
         THEN Result("callScriptFunction", <<name, n>>, "SessionClosedError", 0)
         ELSE IF ~Resolves(name)
         THEN Result("callScriptFunction", <<name, n>>, "UndefinedFunctionError", 0)
         ELSE Result("callScriptFunction", <<name, n>>, "ok", calculate_fibonacci(n))
    /\ UNCHANGED <<session, types, mathModule, mathFns, arena, nextHandle>>
    /\ UNCHANGED <<scriptVars, fibVars, vecVars>>

\* a method call on a handle that was valid at some time
HandleCall(h) ==
    /\ session # "Uninitialized"
    /\ HostTurn
    /\ h \in 1 .. (nextHandle - 1)
    /\ \E closed \in {"SessionClosedError", "StaleHandleError"} :
         lastResult' =
           IF session = "TornDown" THEN Result("handleCall", h, closed, 0)
           ELSE IF h \notin DOMAIN arena THEN Result("handleCall", h, "StaleHandleError", 0)
           ELSE Result("handleCall", h, "ok", 0)
    /\ UNCHANGED <<session, types, mathModule, mathFns, arena, nextHandle>>
    /\ UNCHANGED <<scriptVars, fibVars, vecVars>>

\* section 4.5: every outstanding handle is invalidated
Teardown ==
    /\ session = "Ready"
    /\ HostTurn
    /\ session' = "TornDown"
    /\ arena' = << >>
    /\ lastResult' = Result("teardown", "", "ok", 0)
    /\ UNCHANGED <<types, mathModule, mathFns, nextHandle>>
    /\ UNCHANGED <<scriptVars, fibVars, vecVars>>

----
\* The script, examples/python_example.py, one action per kind of statement.

\* statements inside the try block of lines 40-58
TryLines == {41, 43, 44, 45, 48, 49, 52, 53, 54, 57, 58}
\* line 9: except ImportError
HandledAt9(kind) == kind = "ImportError"
\* variant: a handler for the bridge's errors only
HandledAt59Narrow(kind) == kind \in BridgeErrors
\* line 59: except Exception as e
HandledAt59(kind) == kind \in ExceptionSubclasses

\* variant: the try block opened before the Vector3 sections
InTryWide(line) == line >= 14 /\ line <= 58
\* whether the statement at line is inside the try block of lines 40-58
InTry(line) == line \in TryLines
\* variant: a failing statement is skipped and the block goes on
CatchTargetResume(line) == line + 1
\* where control goes when that try block catches: the handler's body, line 60
CatchTarget(line) == 60

Running == session = "Ready" /\ status = "running"

\* an exception raised by the statement at pc: caught at line 59 when the statement
\* is in the try block, ending the script otherwise
Raise(kind) ==
    IF InTry(pc) /\ HandledAt59(kind)
    THEN /\ pc' = CatchTarget(pc)
         /\ exc' = kind
         /\ globals' = Bind(globals, "e", kind)
         /\ UNCHANGED status
    ELSE /\ status' = "raised"
         /\ exc' = kind
         /\ UNCHANGED <<pc, globals>>

\* the try block's record of the native calls it made
Track(name, ok) ==
    /\ attempted' = IF InTry(pc) THEN Append(attempted, name) ELSE attempted
    /\ returned' = IF InTry(pc) /\ ok THEN Append(returned, name) ELSE returned

\* a new native instance, bound to target
Alloc(target, val) ==
    /\ arena' = arena @@ (nextHandle :> val)
    /\ nextHandle' = nextHandle + 1
    /\ globals' = Bind(globals, target, [handle |-> nextHandle])

\* the print statements and the names their f-strings read
PrintNext ==
    (3 :> 7) @@ (8 :> 13) @@ (10 :> 13) @@ (13 :> 14) @@ (16 :> 17) @@ (17 :> 20)
    @@ (20 :> 21) @@ (24 :> 25) @@ (25 :> 26) @@ (26 :> 29) @@ (29 :> 30)
    @@ (34 :> 35) @@ (35 :> 36) @@ (36 :> 37) @@ (37 :> 41) @@ (41 :> 43)
    @@ (49 :> 52) @@ (54 :> 57) @@ (58 :> 63) @@ (76 :> 77)
PrintReads ==
    (16 :> {"v1"}) @@ (17 :> {"v2"}) @@ (24 :> {"v_add"}) @@ (25 :> {"v_sub"})
    @@ (26 :> {"v_mul"}) @@ (34 :> {"dot_product"}) @@ (35 :> {"cross_product"})
    @@ (36 :> {"length"}) @@ (37 :> {"normalized"}) @@ (49 :> {"angle_deg", "rotated"})
    @@ (54 :> {"t", "lerped"}) @@ (58 :> {"rand"})
Reads(line) == IF line \in DOMAIN PrintReads THEN PrintReads[line] ELSE {}

PrintStmt ==
    /\ Running
    /\ pc \in DOMAIN PrintNext
    /\ IF \A n \in Reads(pc) : Bound(n)
       THEN /\ pc' = PrintNext[pc]
            /\ UNCHANGED <<status, exc, globals>>
       ELSE Raise("NameError")
    /\ UNCHANGED <<loop_i, printed, attempted, returned, reported, calls>>
    /\ UNCHANGED <<bridgeVars, fibVars, vecVars>>

\* lines 6-10: try: import math / except ImportError
ImportMath ==
    /\ Running
    /\ pc = 7
    /\ IF mathModule
       THEN /\ globals' = Bind(globals, "math", "module")
            /\ pc' = 8
            /\ UNCHANGED <<status, exc>>
       ELSE IF HandledAt9("ImportError")
       THEN /\ pc' = 10
            /\ UNCHANGED <<status, exc, globals>>
       ELSE /\ status' = "raised"
            /\ exc' = "ImportError"
            /\ UNCHANGED <<pc, globals>>
    /\ UNCHANGED <<loop_i, printed, attempted, returned, reported, calls>>
    /\ UNCHANGED <<bridgeVars, fibVars, vecVars>>

\* lines 14, 15, 45: target = Vector3(x, y, z)
ConstructVector(line, target, args, next) ==
    /\ Running
    /\ pc = line
    /\ IF ~Bound("Vector3")
       THEN /\ Raise("NameError")
            /\ UNCHANGED <<arena, nextHandle, attempted, returned>>
       ELSE \/ /\ Alloc(target, args)
               /\ Track("Vector3", TRUE)
               /\ pc' = next
               /\ UNCHANGED <<status, exc>>
            \/ /\ \E kind \in CallFailures : Raise(kind)
               /\ Track("Vector3", FALSE)
               /\ UNCHANGED <<arena, nextHandle>>
    /\ UNCHANGED <<loop_i, printed, reported, calls>>
    /\ UNCHANGED <<session, types, mathModule, mathFns, lastResult, fibVars, vecVars>>

\* lines 21-23: v_add = v1 + v2, v_sub = v2 - v1, v_mul = v1 * 2.5
OperatorValue(line) ==
    CASE line = 21 -> Add(Deref("v1"), Deref("v2"))
      [] line = 22 -> Subtract(Deref("v2"), Deref("v1"))
      [] line = 23 -> ScalarMultiply(Deref("v1"), ScalarK)
OperatorTarget == (21 :> "v_add") @@ (22 :> "v_sub") @@ (23 :> "v_mul")

VectorOperator ==
    /\ Running
    /\ pc \in DOMAIN OperatorTarget
    /\ IF ~(Bound("v1") /\ Bound("v2"))
       THEN /\ Raise("NameError")
            /\ UNCHANGED <<arena, nextHandle>>
       ELSE \/ /\ Alloc(OperatorTarget[pc], OperatorValue(pc))
               /\ pc' = IF pc = 23 THEN 24 ELSE pc + 1
               /\ UNCHANGED <<status, exc>>
            \/ /\ \E kind \in CallFailures : Raise(kind)
               /\ UNCHANGED <<arena, nextHandle>>
    /\ UNCHANGED <<loop_i, printed, attempted, returned, reported, calls>>
    /\ UNCHANGED <<session, types, mathModule, mathFns, lastResult, fibVars, vecVars>>

\* lines 30-32: dot_product = v1.dot(v2), cross_product = v1.cross(v2),
\* length = v1.length()
VectorMethod ==
    /\ Running
    /\ pc \in {30, 31, 32}
    /\ IF ~(Bound("v1") /\ Bound("v2"))
       THEN /\ Raise("NameError")
            /\ UNCHANGED <<arena, nextHandle>>
       ELSE \/ /\ CASE pc = 30 ->
                       /\ globals' = Bind(globals, "dot_product", Dot(Deref("v1"), Deref("v2")))
                       /\ UNCHANGED <<arena, nextHandle>>
                    [] pc = 31 -> Alloc("cross_product", Cross(Deref("v1"), Deref("v2")))
                    [] pc = 32 ->
                       /\ globals' = Bind(globals, "length", Length(Deref("v1")))
                       /\ UNCHANGED <<arena, nextHandle>>
               /\ pc' = pc + 1
               /\ UNCHANGED <<status, exc>>
            \/ /\ \E kind \in CallFailures : Raise(kind)
               /\ UNCHANGED <<arena, nextHandle>>
    /\ UNCHANGED <<loop_i, printed, attempted, returned, reported, calls>>
    /\ UNCHANGED <<session, types, mathModule, mathFns, lastResult, fibVars, vecVars>>

\* line 33: normalized = v1.normalize()
NormalizeCall ==
    /\ Running
    /\ pc = 33
    /\ IF ~Bound("v1")
       THEN /\ Raise("NameError")
            /\ UNCHANGED <<arena, nextHandle, calls>>
       ELSE /\ calls' = calls \cup {<<"normalize", Deref("v1")>>}
            /\ IF NormalizeDomainError(Deref("v1"))
               THEN /\ Raise("DomainError")
                    /\ UNCHANGED <<arena, nextHandle>>
               ELSE \/ /\ Alloc("normalized", Normalize(Deref("v1")))
                       /\ pc' = 34
                       /\ UNCHANGED <<status, exc>>
                    \/ /\ \E kind \in CallFailures : Raise(kind)
                       /\ UNCHANGED <<arena, nextHandle>>
    /\ UNCHANGED <<loop_i, printed, attempted, returned, reported>>
    /\ UNCHANGED <<session, types, mathModule, mathFns, lastResult, fibVars, vecVars>>

\* lines 43 and 52: angle_deg = 45.0, t = 0.5
AssignLiteral ==
    /\ Running
    /\ pc \in {43, 52}
    /\ globals' = IF pc = 43 THEN Bind(globals, "angle_deg", AngleDeg)
                  ELSE Bind(globals, "t", LerpT)
    /\ pc' = pc + 1
    /\ UNCHANGED <<status, exc, loop_i, printed, attempted, returned, reported, calls>>
    /\ UNCHANGED <<bridgeVars, fibVars, vecVars>>

\* what evaluating math.<name> raises before any call is made ("" when nothing)
MathLookup(name) ==
    IF ~Bound("math") THEN "NameError"
    ELSE IF name \notin mathFns THEN "AttributeError"
    ELSE ""

\* line 44: angle_rad = math.radians(angle_deg)
MathRadians ==
    /\ Running
    /\ pc = 44
    /\ IF MathLookup("radians") # ""
       THEN /\ Raise(MathLookup("radians"))
            /\ UNCHANGED <<attempted, returned>>
       ELSE IF ~Bound("angle_deg")
       THEN /\ Raise("NameError")
            /\ UNCHANGED <<attempted, returned>>
       ELSE \/ /\ globals' = Bind(globals, "angle_rad", Radians(globals["angle_deg"]))
               /\ Track("radians", TRUE)
               /\ pc' = 45
               /\ UNCHANGED <<status, exc>>
            \/ /\ \E kind \in CallFailures : Raise(kind)
               /\ Track("radians", FALSE)
    /\ UNCHANGED <<loop_i, printed, reported, calls>>
    /\ UNCHANGED <<bridgeVars, fibVars, vecVars>>

\* line 48: rotated = v1.rotated(axis, angle_rad)
RotatedCall ==
    /\ Running
    /\ pc = 48
    /\ IF ~(Bound("v1") /\ Bound("axis") /\ Bound("angle_rad"))
       THEN /\ Raise("NameError")
            /\ UNCHANGED <<arena, nextHandle, attempted, returned, calls>>
       ELSE /\ calls' = calls \cup {<<"rotated", Deref("axis")>>}
            /\ IF RotatedDomainError(Deref("axis"))
               THEN /\ Raise("DomainError")
                    /\ Track("rotated", FALSE)
                    /\ UNCHANGED <<arena, nextHandle>>
               ELSE \/ /\ Alloc("rotated",
                                Rotated(Deref("v1"), Deref("axis"), globals["angle_rad"]))
                       /\ Track("rotated", TRUE)
                       /\ pc' = 49
                       /\ UNCHANGED <<status, exc>>
                    \/ /\ \E kind \in CallFailures : Raise(kind)
                       /\ Track("rotated", FALSE)
                       /\ UNCHANGED <<arena, nextHandle>>
    /\ UNCHANGED <<loop_i, printed, reported>>
    /\ UNCHANGED <<session, types, mathModule, mathFns, lastResult, fibVars, vecVars>>

\* line 53: lerped = math.lerp(v1, v2, t)
MathLerp ==
    /\ Running
    /\ pc = 53
    /\ IF MathLookup("lerp") # ""
       THEN /\ Raise(MathLookup("lerp"))
            /\ UNCHANGED <<arena, nextHandle, attempted, returned>>
       ELSE IF ~(Bound("v1") /\ Bound("v2") /\ Bound("t"))
       THEN /\ Raise("NameError")
            /\ UNCHANGED <<arena, nextHandle, attempted, returned>>
       ELSE \/ /\ Alloc("lerped", Lerp(Deref("v1"), Deref("v2"), globals["t"]))
               /\ Track("lerp", TRUE)
               /\ pc' = 54
               /\ UNCHANGED <<status, exc>>
            \/ /\ \E kind \in CallFailures : Raise(kind)
               /\ Track("lerp", FALSE)
               /\ UNCHANGED <<arena, nextHandle>>
    /\ UNCHANGED <<loop_i, printed, reported, calls>>
    /\ UNCHANGED <<session, types, mathModule, mathFns, lastResult, fibVars, vecVars>>

\* line 57: rand = math.random(1, 10)
MathRandom ==
    /\ Running
    /\ pc = 57
    /\ IF MathLookup("random") # ""
       THEN /\ Raise(MathLookup("random"))
            /\ UNCHANGED <<attempted, returned, calls>>
       ELSE /\ calls' = calls \cup {<<"random", RandomArgs>>}
            /\ IF RandomDomainError(RandomArgs[1], RandomArgs[2])
               THEN /\ Raise("DomainError")
                    /\ Track("random", FALSE)
               ELSE \/ /\ \E r \in RandomRange(RandomArgs[1], RandomArgs[2]) :
                            globals' = Bind(globals, "rand", r)
                       /\ Track("random", TRUE)
                       /\ pc' = 58
                       /\ UNCHANGED <<status, exc>>
                    \/ /\ \E kind \in CallFailures : Raise(kind)
                       /\ Track("random", FALSE)
    /\ UNCHANGED <<loop_i, printed, reported>>
    /\ UNCHANGED <<bridgeVars, fibVars, vecVars>>

\* lines 59-60: the handler prints the error; e is unbound when it ends
ExceptHandler ==
    /\ Running
    /\ pc = 60
    /\ reported' = reported + 1
    /\ globals' = Unbind(globals, "e")
    /\ exc' = ""
    /\ pc' = 63
    /\ UNCHANGED <<status, loop_i, printed, attempted, returned, calls>>
    /\ UNCHANGED <<bridgeVars, fibVars, vecVars>>

\* variant: the function defined under another name
DefTargetMisnamed == 63 :> "fibonacci"
\* line 63: the def statement binds calculate_fibonacci
DefTarget == 63 :> "calculate_fibonacci"

DefStatement ==
    /\ Running
    /\ pc \in DOMAIN DefTarget
    /\ globals' = Bind(globals, DefTarget[pc], "function")
    /\ pc' = 76
    /\ UNCHANGED <<status, exc, loop_i, printed, attempted, returned, reported, calls>>
    /\ UNCHANGED <<bridgeVars, fibVars, vecVars>>

\* line 77: for i in range(10)
ForRange ==
    /\ Running
    /\ pc = 77
    /\ IF loop_i < RangeEnd
       THEN /\ globals' = Bind(globals, "i", loop_i)
            /\ loop_i' = loop_i + 1
            /\ pc' = 78
       ELSE /\ pc' = 80
            /\ UNCHANGED <<globals, loop_i>>
    /\ UNCHANGED <<status, exc, printed, attempted, returned, reported, calls>>
    /\ UNCHANGED <<bridgeVars, fibVars, vecVars>>

\* line 78: print(f"Fibonacci({i}) = {calculate_fibonacci(i)}")
SelfTest ==
    /\ Running
    /\ pc = 78
    /\ IF Bound("calculate_fibonacci") /\ Bound("i")
       THEN /\ printed' = Append(printed, calculate_fibonacci(globals["i"]))
            /\ pc' = 77
            /\ UNCHANGED <<status, exc, globals>>
       ELSE /\ Raise("NameError")
            /\ UNCHANGED printed
    /\ UNCHANGED <<loop_i, attempted, returned, reported, calls>>
    /\ UNCHANGED <<bridgeVars, fibVars, vecVars>>

\* line 80: the last statement; the script ends
ScriptEnd ==
    /\ Running
    /\ pc = 80
    /\ status' = "done"
    /\ pc' = 81
    /\ UNCHANGED <<globals, exc, loop_i, printed, attempted, returned, reported, calls>>
    /\ UNCHANGED <<bridgeVars, fibVars, vecVars>>

----
\* no activation of calculate_fibonacci: its locals are unbound (0 stands for that)
FibCleared == fa = 0 /\ fb = 0 /\ fi = 0 /\ fret = 0 /\ fiters = 0
IdleFib == fn = 0 /\ fpc = "idle" /\ FibCleared
VecCleared ==
    /\ vdot = 0 /\ vcross = <<0, 0, 0>> /\ vrev = <<0, 0, 0>> /\ vtriple = 0
IdleVec ==
    /\ va = <<0, 0, 0>> /\ vb = <<0, 0, 0>> /\ vscript = FALSE
    /\ VecCleared
    /\ vpc = "idle"
IdleScript ==
    /\ globals = << >>
    /\ status = "idle"
    /\ pc = 0
    /\ exc = ""
    /\ loop_i = 0
    /\ printed = << >>
    /\ attempted = << >>
    /\ returned = << >>
    /\ reported = 0
    /\ calls = {}
IdleBridge ==
    /\ session = "Uninitialized"
    /\ types = {}
    /\ mathModule = FALSE
    /\ mathFns = {}
    /\ arena = << >>
    /\ nextHandle = 1
    /\ lastResult = Result("", "", "ok", 0)

Init == IdleBridge /\ IdleScript /\ IdleFib /\ IdleVec

ScriptStep ==
    \/ PrintStmt
    \/ ImportMath
    \/ ConstructVector(14, "v1", V1Args, 15)
    \/ ConstructVector(15, "v2", V2Args, 16)
    \/ ConstructVector(45, "axis", AxisArgs, 48)
    \/ VectorOperator
    \/ VectorMethod
    \/ NormalizeCall
    \/ AssignLiteral
    \/ MathRadians
    \/ RotatedCall
    \/ MathLerp
    \/ MathRandom
    \/ ExceptHandler
    \/ DefStatement
    \/ ForRange
    \/ SelfTest
    \/ ScriptEnd

\* the host prepares the session and starts the script
HostSetup ==
    \/ Initialize
    \/ \E name \in TypeNames : RegisterType(name)
    \/ RegisterModule
    \/ \E name \in MathFnNames : RegisterFunction(name)
    \/ ExecuteScript

\* the host, or a native callable, uses the session and ends it
HostUse ==
    \/ \E name \in ScriptFnNames, n \in FibArgs : CallScriptFunction(name, n)
    \/ \E h \in 1 .. (nextHandle - 1) : HandleCall(h)
    \/ Teardown

Next == ScriptStep \/ HostSetup \/ HostUse

Spec == Init /\ [][Next]_vars

\* a host that only prepares the session and runs the script
ScriptNext == ScriptStep \/ HostSetup

\* the interpreter runs the script to its end or to an uncaught exception: script
\* execution is synchronous and no operation suspends (design document, section 5)
SpecScript == Init /\ [][ScriptNext]_vars /\ WF_vars(ScriptStep)

----
\* One activation of calculate_fibonacci (lines 63-73), statement by statement.
\* fi is the next value range(2, n + 1) yields, fiters counts runs of line 72.

FibCall(n) ==
    /\ fpc \in {"idle", "ret"}
    /\ fn' = n
    /\ fa' = 0 /\ fb' = 0 /\ fi' = 0 /\ fret' = 0 /\ fiters' = 0
    /\ fpc' = "65"
    /\ UNCHANGED <<bridgeVars, scriptVars, vecVars>>

\* lines 65-69: if n <= 0: return 0 / elif n == 1: return 1 / else
FibTest ==
    /\ fpc = "65"
    /\ IF fn <= 0 \/ fn = 1
       THEN fret' = FibBase(fn) /\ fpc' = "ret"
       ELSE fpc' = "70" /\ UNCHANGED fret
    /\ UNCHANGED <<fn, fa, fb, fi, fiters>>
    /\ UNCHANGED <<bridgeVars, scriptVars, vecVars>>

\* line 70: a, b = 0, 1; the range of line 71 starts at 2
FibAssign ==
    /\ fpc = "70"
    /\ fa' = 0 /\ fb' = 1 /\ fi' = 2
    /\ fpc' = "71"
    /\ UNCHANGED <<fn, fret, fiters>>
    /\ UNCHANGED <<bridgeVars, scriptVars, vecVars>>

\* line 71: for _ in range(2, n + 1)
FibFor ==
    /\ fpc = "71"
    /\ fpc' = IF fi < fn + 1 THEN "72" ELSE "73"
    /\ UNCHANGED <<fn, fa, fb, fi, fret, fiters>>
    /\ UNCHANGED <<bridgeVars, scriptVars, vecVars>>

\* line 72: a, b = b, a + b
FibBody ==
    /\ fpc = "72"
    /\ fa' = LoopBody(fa, fb)[1]
    /\ fb' = LoopBody(fa, fb)[2]
    /\ fi' = fi + 1
    /\ fiters' = fiters + 1
    /\ fpc' = "71"
    /\ UNCHANGED <<fn, fret>>
    /\ UNCHANGED <<bridgeVars, scriptVars, vecVars>>

\* line 73: return b
FibReturn ==
    /\ fpc = "73"
    /\ fret' = fb
    /\ fpc' = "ret"
    /\ UNCHANGED <<fn, fa, fb, fi, fiters>>
    /\ UNCHANGED <<bridgeVars, scriptVars, vecVars>>

FibStep == FibTest \/ FibAssign \/ FibFor \/ FibBody \/ FibReturn
FibNext == (\E n \in FibArgs : FibCall(n)) \/ FibStep

\* the interpreter runs a called function to its return (design document, section 5)
SpecFib == Init /\ [][FibNext]_vars /\ WF_vars(FibStep)

----
\* The Vector3 laws: operands drawn from a cube of integer vectors and from the
\* script's own operands (lines 14-15), the operations applied one after another.

Cube == {<<x, y, z>> : x \in Comps, y \in Comps, z \in Comps}

VecInit ==
    /\ IdleBridge /\ IdleScript /\ IdleFib
    /\ \/ va \in Cube /\ vb \in Cube /\ vscript = FALSE
       \/ va = V1Args /\ vb = V2Args /\ vscript = TRUE
    /\ VecCleared
    /\ vpc = "dot"

\* v1.dot(v2), line 30
ApplyDot ==
    /\ vpc = "dot"
    /\ vdot' = Dot(va, vb)
    /\ vpc' = "cross"
    /\ UNCHANGED <<va, vb, vscript, vcross, vrev, vtriple>>
    /\ UNCHANGED <<bridgeVars, scriptVars, fibVars>>

\* v1.cross(v2), line 31, and the same with the operands exchanged
ApplyCross ==
    /\ vpc = "cross"
    /\ vcross' = Cross(va, vb)
    /\ vrev' = Cross(vb, va)
    /\ vpc' = "triple"
    /\ UNCHANGED <<va, vb, vscript, vdot, vtriple>>
    /\ UNCHANGED <<bridgeVars, scriptVars, fibVars>>

\* dot(a, cross(a, b))
ApplyTriple ==
    /\ vpc = "triple"
    /\ vtriple' = Dot(va, vcross)
    /\ vpc' = "done"
    /\ UNCHANGED <<va, vb, vscript, vdot, vcross, vrev>>
    /\ UNCHANGED <<bridgeVars, scriptVars, fibVars>>

VecNext == ApplyDot \/ ApplyCross \/ ApplyTriple

SpecVec == VecInit /\ [][VecNext]_vars

----
\* Properties.

FibName == "calculate_fibonacci"
\* the last bridge operation was callScriptFunction("calculate_fibonacci", [n])
IsFibCall(r) == r.op = "callScriptFunction" /\ r.arg[1] = FibName
\* the def statement of line 63 has run
DefHasRun == status # "idle" /\ pc > 63
\* this step is a call of calculate_fibonacci through the bridge
FibCallStep == lastResult' # lastResult /\ IsFibCall(lastResult')

\* the Fibonacci numbers: F(0) = 0, F(1) = 1, F(k) = F(k-1) + F(k-2)
RECURSIVE F(_)
F(k) == IF k = 0 THEN 0 ELSE IF k = 1 THEN 1 ELSE F(k - 1) + F(k - 2)

\* C1: a call of calculate_fibonacci through callScriptFunction that returns
\* returns 0 for the argument 0, 1 for the argument 1 and 55 for the argument 10.
C1_FibonacciValues ==
    (IsFibCall(lastResult) /\ lastResult.outcome = "ok") =>
        /\ lastResult.arg[2] = 0 => lastResult.value = 0
        /\ lastResult.arg[2] = 1 => lastResult.value = 1
        /\ lastResult.arg[2] = 10 => lastResult.value = 55
C1_Witness ==
    /\ IsFibCall(lastResult)
    /\ lastResult.outcome = "ok"
    /\ lastResult.arg[2] = 10
    /\ lastResult.value = 55

\* C2: callScriptFunction is late-bound. In a Ready session a call of
\* calculate_fibonacci fails with UndefinedFunctionError exactly when the def
\* statement of line 63 has not run; after teardown it does not fail with that
\* error; the name is bound exactly when the def statement has run, and once bound
\* the binding is neither removed nor rebound.
C2_LateBinding ==
    [][/\ FibCallStep =>
            ((lastResult'.outcome = "UndefinedFunctionError")
                <=> (session = "Ready" /\ ~DefHasRun))
       /\ (FibCallStep /\ session = "Ready" /\ DefHasRun) => lastResult'.outcome = "ok"
       /\ Bound(FibName) <=> DefHasRun
       /\ Bound(FibName) =>
            (FibName \in DOMAIN globals' /\ globals'[FibName] = globals[FibName])]_vars
C2_Witness ==
    /\ IsFibCall(lastResult)
    /\ lastResult.outcome = "UndefinedFunctionError"
    /\ status = "running"
    /\ DefHasRun

\* C3: from the script's first statement on, Vector3 is registered and bound to
\* its constructor, and neither construction of lines 14-15 finds the name missing.
C3_RegisteredBeforeScript ==
    status # "idle" =>
        /\ "Vector3" \in types
        /\ Bound("Vector3")
        /\ globals["Vector3"] = "type"
        /\ (status = "raised" /\ pc \in {14, 15}) => exc # "NameError"
C3_Witness ==
    /\ status = "running"
    /\ pc = 15
    /\ Bound("v1")

\* C4: once the session is Torn Down it stays Torn Down, every bridge operation
\* made on it ends with SessionClosedError or StaleHandleError, and nothing else
\* of the bridge or of the script changes.
C4_TornDownIsFinal ==
    [][session = "TornDown" =>
          /\ session' = "TornDown"
          /\ lastResult'.outcome \in {"SessionClosedError", "StaleHandleError"}
          /\ UNCHANGED <<types, mathModule, mathFns, arena, nextHandle, scriptVars>>]_vars
C4_Witness ==
    /\ session = "TornDown"
    /\ lastResult.op = "handleCall"
    /\ lastResult.arg = 1
    /\ lastResult.outcome \in {"SessionClosedError", "StaleHandleError"}
    /\ Bound("v1")

\* C5: for all vectors a and b, cross(a,b) is the componentwise negation of
\* cross(b,a) and dot(a, cross(a,b)) is 0; for the script's operands
\* v1 = (1,2,3) and v2 = (4,5,6), dot is 32 and cross is (-3, 6, -3).
C5_CrossLaws ==
    vpc = "done" =>
        /\ vcross = Negate(vrev)
        /\ vtriple = 0
        /\ vscript => (vdot = 32 /\ vcross = <<0 - 3, 6, 0 - 3>>)
C5_Witness ==
    /\ vpc = "done"
    /\ vscript
    /\ vdot = 32
    /\ vcross = <<0 - 3, 6, 0 - 3>>
    /\ vrev = <<3, 0 - 6, 3>>

\* C6: no exception leaves the script from line 41 on, and once the Vector3
\* sections have completed (the script is at line 41 or later) the script reaches
\* its end with calculate_fibonacci defined, the math module imported or not,
\* its functions present or not, failing or not.
C6_MathSectionContained ==
    /\ [](status = "raised" => pc < 41)
    /\ (status = "running" /\ pc >= 41) ~> (status = "done" /\ pc = 81 /\ Bound(FibName))
C6_Witness ==
    /\ status = "done"
    /\ ~Bound("math")
    /\ reported = 1
    /\ attempted = << >>
    /\ Bound(FibName)

\* C7: calculate_fibonacci(n) returns F(n) for n >= 0 and 0 for n < 0; for n >= 2
\* line 72 runs n - 1 times, and after the run for index i the pair (a, b) is
\* (F(i-1), F(i)); every call returns.
C7_FibonacciLoop ==
    /\ [](/\ fpc = "ret" => fret = (IF fn >= 0 THEN F(fn) ELSE 0)
          /\ (fpc = "ret" /\ fn >= 2) => fiters = fn - 1
          /\ fpc \in {"71", "72", "73"} => fiters = fi - 2
          /\ (fpc = "71" /\ fiters >= 1) => (fa = F(fi - 2) /\ fb = F(fi - 1)))
    /\ (fpc = "65") ~> (fpc = "ret")
C7_Witness ==
    /\ fpc = "ret"
    /\ fn = 10
    /\ fiters = 9
    /\ fret = 55

\* the statements of the Vector3 sections that call into native code
VectorCallLines == {14, 15, 21, 22, 23, 30, 31, 32, 33}

\* C8: an exception raised by a construction or operation of lines 14-37 ends the
\* script at that statement: no later statement runs, calculate_fibonacci is never
\* bound, and a call of it through the bridge fails with UndefinedFunctionError.
C8_VectorErrorsEscape ==
    [][/\ (status = "running" /\ pc \in VectorCallLines /\ exc' # exc) =>
            (status' = "raised" /\ pc' = pc)
       /\ (status = "raised" /\ pc < 41) =>
            /\ UNCHANGED scriptVars
            /\ ~Bound(FibName)
            /\ (FibCallStep /\ session = "Ready") =>
                  lastResult'.outcome = "UndefinedFunctionError"]_vars
C8_Witness ==
    /\ status = "raised"
    /\ pc = 33
    /\ session = "Ready"
    /\ IsFibCall(lastResult)
    /\ lastResult.outcome = "UndefinedFunctionError"

\* C9: no call of the script meets a DomainError precondition: normalize is called
\* on (1,2,3) only, of squared length 14; rotated with the axis (0,1,0) only;
\* random with low = 1 and high = 10 only; v1 and v2 keep the values they were
\* constructed with.
C9_NoDomainError ==
    /\ exc # "DomainError"
    /\ \A c \in calls :
         /\ c[1] = "normalize" =>
               (c[2] = <<1, 2, 3>> /\ Dot(c[2], c[2]) = 14 /\ ~NormalizeDomainError(c[2]))
         /\ c[1] = "rotated" => (c[2] = <<0, 1, 0>> /\ ~RotatedDomainError(c[2]))
         /\ c[1] = "random" => (c[2] = <<1, 10>> /\ ~RandomDomainError(c[2][1], c[2][2]))
    /\ (session = "Ready" /\ Bound("v1")) => Deref("v1") = <<1, 2, 3>>
    /\ (session = "Ready" /\ Bound("v2")) => Deref("v2") = <<4, 5, 6>>
C9_Witness ==
    /\ Cardinality(calls) = 3
    /\ Bound("rand")

IsPrefix(p, q) == Len(p) <= Len(q) /\ \A k \in 1 .. Len(p) : p[k] = q[k]
InSeq(x, q) == \E k \in 1 .. Len(q) : q[k] = x
MathOrder == <<"radians", "rotated", "lerp", "random">>
NotConstructor(x) == x # "Vector3"

\* C10: the try block calls radians, rotated, lerp, random in that order, each only
\* after every earlier call returned normally (the construction of the axis at
\* line 45 among them); random is called only after radians, rotated and lerp
\* returned; the handler runs at most once.
C10_MathSectionOrder ==
    /\ IsPrefix(SelectSeq(attempted, NotConstructor), MathOrder)
    /\ IsPrefix(returned, attempted)
    /\ Len(attempted) <= Len(returned) + 1
    /\ InSeq("random", attempted) =>
          (InSeq("radians", returned) /\ InSeq("rotated", returned) /\ InSeq("lerp", returned))
    /\ reported <= 1
    /\ Len(returned) < Len(attempted) => (pc = 60 \/ reported = 1)
C10_Witness ==
    /\ attempted = <<"radians", "Vector3", "rotated", "lerp", "random">>
    /\ returned = <<"radians", "Vector3", "rotated", "lerp">>
    /\ reported = 1
    /\ status = "done"

====
